---- MODULE Spec2Model ----
(***************************************************************************)
(* Model of the land-patent scraper: src/main_scraper.py (crawl driver     *)
(* main, record assembler process_record_from_rows, image resolution       *)
(* client get_image_link, enrichment, download, progress tracking).        *)
(*                                                                         *)
(* Python indices are kept 0-based as in the source; row i of the listing  *)
(* is rows[i + 1] of the TLA+ sequence.  Python None is "null" for text    *)
(* values and the record None for structured values.                       *)
(***************************************************************************)
EXTENDS Integers, Sequences, FiniteSets, TLC

(* ---------------------------- bounds ----------------------------------- *)
MaxRows == 3        \* longest listing returned by a fetch
MaxStates == 2      \* longest state list in state_counties.json
MaxCounties == 2    \* most counties listed under one state
MaxTotal == 10      \* largest total_records fed to the percentage formula
MaxProcessed == 3   \* largest processed count fed to the mapping update
MaxSegments == 2    \* most break-delimited segments in a name cell
MaxUnitRows == 1    \* longest listing in the runs over several units
MaxLoopRows == 2    \* longest listing in the runs over a single unit

(* ------------------------ program constants ---------------------------- *)
max_retries == 10   \* get_image_link default argument
max_records == 10   \* main: "Limit for testing"

NULL == "null"
None == [none |-> TRUE]

Accessions == {"A", "B"}
ImageLinks == {"img", NULL}          \* imageFileLink of a READY response
PageAccessions == {NULL, "Z"}        \* accessionNr text on the detail page

(* ------------------------------ inputs --------------------------------- *)
\* A listing row: "empty" has no <td>, "short" has cols[0] but fewer than
\* ten columns, "full" has all ten.  The parcel columns (5..9) of the row at
\* position p are abstracted to the distinct text p.
RowKinds == {"empty", "short", "full"}

Row(kind, acc, p) == [kind |-> kind, acc |-> acc, parcel |-> p]

RowChoices == {<<"empty", NULL>>} \cup ({"short", "full"} \X Accessions)

RowSeqs(n) == {[i \in 1..n |-> Row(f[i][1], f[i][2], i)] :
                  f \in [1..n -> RowChoices]}

Listings == UNION {RowSeqs(n) : n \in 0..MaxRows}

\* state_counties.json: entry k is state "S"k with 0..MaxCounties counties.
StateAbbrs == [k \in 1..(MaxStates + 1) |-> <<"S1", "S2", "S3", "S4">>[k]]
CountyIds == [k \in 1..(MaxCounties + 1) |-> <<"c1", "c2", "c3", "c4">>[k]]

StateNames == [k \in 1..(MaxStates + 1) |-> <<"N1", "N2", "N3", "N4">>[k]]

StateEntry(k, n) ==
    [state |-> StateNames[k],
     abbreviation |-> StateAbbrs[k],
     counties |-> [j \in 1..n |-> CountyIds[j]]]

StatesDataOf(n) == {[k \in 1..n |-> StateEntry(k, f[k])] :
                       f \in [1..n -> 0..MaxCounties]}

StatesDataChoices == UNION {StatesDataOf(n) : n \in 0..MaxStates}

(* ------------------------------ state ---------------------------------- *)
VARIABLES
    pc,                 \* position of the single driver thread
    states_data,        \* main: loaded state/county input
    state_i,            \* main: position of the for loop over states_data
    table_rows,         \* main: None or [rows |-> listing]
    total_records,      \* main
    enhanced_records,   \* main: in-memory collection of the current unit
    current_index,      \* main: row cursor (0-based)
    processed_records,  \* main
    record,             \* record being assembled / enhanced, or None
    rows_consumed,      \* process_record_from_rows
    look_index,         \* process_record_from_rows: inner current_index
    link_kind,          \* process_record_from_rows: what cols[0] links to
    attempt,            \* get_image_link: polls issued so far
    sleeps,             \* get_image_link: time.sleep calls so far
    poll_log,           \* get_image_link: responses received so far
    image_link,         \* get_image_link: returned value
    img_fail,           \* get_image_link: which failure path returned
    county_data,        \* main: mapping entry built for the last record
    county_mapping,     \* main: in-memory global mapping
    dirs,               \* disk: directories created
    record_files,       \* disk: per-unit output file, by unit key
    mapping_file,       \* disk: county_mapping.json
    fetch_log,          \* main: units whose listing was requested, in order
    patentee_cell,      \* parse_patentees: the cell handed in
    patentees,          \* parse_patentees: the returned list
    detail_page,        \* enhance_record_with_details: the fetched page
    image_saved         \* download_patent_image: what download_image returned

vars == <<pc, states_data, state_i, table_rows, total_records,
          enhanced_records, current_index, processed_records, record,
          rows_consumed, look_index, link_kind, attempt, sleeps, poll_log,
          image_link, img_fail, county_data, county_mapping, dirs,
          record_files, mapping_file, fetch_log, patentee_cell, patentees,
          detail_page, image_saved>>

driverVars == <<states_data, state_i, table_rows, total_records,
                enhanced_records, current_index, processed_records,
                fetch_log>>
asmVars == <<record, rows_consumed, look_index, link_kind>>
imgVars == <<attempt, sleeps, poll_log, image_link, img_fail>>
mapVars == <<county_data, county_mapping>>
diskVars == <<dirs, record_files, mapping_file>>
parseVars == <<patentee_cell, patentees>>
localVars == <<parseVars, detail_page, image_saved>>

(* ------------------------- current crawl unit -------------------------- *)
state == states_data[state_i]
state_abbr == state.abbreviation
state_name == state.state
\* The last county of the state instead of its first.
last_county_id == state.counties[Len(state.counties)]

\* main, line 650: the first county of the state.
county_id == state.counties[1]
UnitKey(abbr, cid) == <<abbr, cid>>
file_path == UnitKey(state_abbr, county_id)
rows == table_rows.rows

NoFile == [exists |-> FALSE]
\* open(path, "w") truncates: zero bytes, which is not a JSON document.
Truncated == [exists |-> TRUE, valid |-> FALSE, content |-> <<>>]
Written(c) == [exists |-> TRUE, valid |-> TRUE, content |-> c]

AllUnitKeys == {UnitKey(StateAbbrs[k], CountyIds[j]) :
                   k \in 1..MaxStates, j \in 1..MaxCounties}

(* ------------------------------- Init ---------------------------------- *)
\* The variables that no stand-alone run of a part starts from.
InitLocals ==
    /\ total_records = 0
    /\ enhanced_records = <<>>
    /\ processed_records = 0
    /\ rows_consumed = 0
    /\ look_index = 0
    /\ link_kind = NULL
    /\ attempt = 0
    /\ sleeps = 0
    /\ poll_log = <<>>
    /\ image_link = NULL
    /\ img_fail = "none"
    /\ county_data = None
    /\ county_mapping = <<>>
    /\ dirs = {}
    /\ record_files = [k \in AllUnitKeys |-> NoFile]
    /\ mapping_file = NoFile
    /\ fetch_log = <<>>
    /\ patentees = <<>>
    /\ detail_page = None
    /\ image_saved = "none"

\* Everything but the program position and the listing under the cursor.
InitOther ==
    /\ states_data = <<>>
    /\ state_i = 0
    /\ record = None
    /\ patentee_cell = <<>>
    /\ InitLocals

\* The state when main starts.
Init ==
    /\ pc = "load"
    /\ table_rows = None
    /\ current_index = 0
    /\ InitOther

(* --------------------------- main: startup ----------------------------- *)
\* main, lines 619-634: load state_counties.json, create the base
\* directories, start with an empty mapping.
LoadStatesFrom(choices) ==
    /\ pc = "load"
    /\ \E sd \in choices :
          /\ states_data' = sd
          /\ state_i' = 1
          /\ dirs' = dirs \cup {<<"land_records">>, <<"land_records", "json">>}
          /\ county_mapping' = <<>>
          /\ pc' = "for_state"
    /\ UNCHANGED <<table_rows, total_records, enhanced_records, current_index,
                   processed_records, fetch_log, asmVars, imgVars,
                   county_data, record_files, mapping_file>>
    /\ UNCHANGED localVars

LoadStates == LoadStatesFrom(StatesDataChoices)

\* LoadFails with the base directories made before the load.
LoadFailsAfterMakedirs ==
    /\ pc = "load"
    /\ dirs' = dirs \cup {<<"land_records">>, <<"land_records", "json">>}
    /\ pc' = "done"
    /\ UNCHANGED <<driverVars, asmVars, imgVars, mapVars, record_files,
                   mapping_file, localVars>>

\* main, lines 622-624: the input cannot be loaded, main returns.
LoadFails ==
    /\ pc = "load"
    /\ pc' = "done"
    /\ UNCHANGED <<driverVars, asmVars, imgVars, mapVars, diskVars>>
    /\ UNCHANGED localVars

(* ------------------------ main: loop over states ----------------------- *)
\* main, lines 637-660: next state of the for loop; a state without
\* counties is skipped, otherwise its first county becomes the crawl unit.
ForState ==
    /\ pc = "for_state"
    /\ IF state_i > Len(states_data)
       THEN /\ pc' = "end"
            /\ UNCHANGED <<state_i, dirs>>
       ELSE IF Len(state.counties) = 0
       THEN /\ state_i' = state_i + 1
            /\ pc' = "for_state"
            /\ UNCHANGED dirs
       ELSE /\ dirs' = dirs \cup
                 {<<"land_records", "json", state_abbr>>,
                  <<"land_records", "images", state_abbr, county_id>>}
            /\ pc' = "fetch"
            /\ UNCHANGED state_i
    /\ UNCHANGED <<states_data, table_rows, total_records, enhanced_records,
                   current_index, processed_records, fetch_log, asmVars,
                   imgVars, mapVars, record_files, mapping_file>>
    /\ UNCHANGED localVars

\* count_unique_patents, lines 602-615.
count_unique_patents(table) ==
    IF Len(table) = 0 THEN 0
    ELSE Cardinality({table[i].acc : i \in {j \in 1..Len(table) :
                                              table[j].kind # "empty"}})

\* FetchListingFrom asking again for the unit whose listing it did not get.
FetchListingAgain(listings) ==
    /\ pc = "fetch"
    /\ \E fetched \in {None} \cup {[rows |-> l] : l \in listings} :
          /\ table_rows' = fetched
          /\ fetch_log' = Append(fetch_log, file_path)
          /\ IF fetched = None
             THEN /\ pc' = "for_state"
                  /\ UNCHANGED <<state_i, total_records, enhanced_records,
                                 current_index, processed_records>>
             ELSE IF Len(fetched.rows) = 0
             THEN /\ state_i' = state_i + 1
                  /\ pc' = "for_state"
                  /\ UNCHANGED <<total_records, enhanced_records,
                                 current_index, processed_records>>
             ELSE /\ total_records' = count_unique_patents(fetched.rows)
                  /\ enhanced_records' = <<>>
                  /\ current_index' = 0
                  /\ processed_records' = 0
                  /\ pc' = "while"
                  /\ UNCHANGED state_i
    /\ UNCHANGED <<states_data, asmVars, imgVars, mapVars, diskVars,
                   localVars>>

\* get_search_results_table, lines 125-155, and main, lines 663-679.
\* The fetch fails or finds no table (None), or returns the rows after the
\* header row.  A unit with nothing to process is skipped (continue).
FetchListingFrom(listings) ==
    /\ pc = "fetch"
    /\ \E fetched \in {None} \cup {[rows |-> l] : l \in listings} :
          /\ table_rows' = fetched
          /\ fetch_log' = Append(fetch_log, file_path)
          /\ IF fetched = None \/ Len(fetched.rows) = 0
             THEN /\ state_i' = state_i + 1
                  /\ pc' = "for_state"
                  /\ UNCHANGED <<total_records, enhanced_records,
                                 current_index, processed_records>>
             ELSE /\ total_records' = count_unique_patents(fetched.rows)
                  /\ enhanced_records' = <<>>
                  /\ current_index' = 0
                  /\ processed_records' = 0
                  /\ pc' = "while"
                  /\ UNCHANGED state_i
    /\ UNCHANGED <<states_data, asmVars, imgVars, mapVars, diskVars>>
    /\ UNCHANGED localVars

\* main, line 681 and lines 748-751: loop test; leaving the loop ends the
\* for loop as well (break).
WhileTest ==
    /\ pc = "while"
    /\ IF processed_records < max_records /\ current_index < Len(rows)
       THEN pc' = "asm_start"
       ELSE pc' = "end"
    /\ UNCHANGED <<driverVars, asmVars, imgVars, mapVars, diskVars>>
    /\ UNCHANGED localVars

\* main, line 753.
Finish ==
    /\ pc = "end"
    /\ pc' = "done"
    /\ UNCHANGED <<driverVars, asmVars, imgVars, mapVars, diskVars>>
    /\ UNCHANGED localVars

FetchListing == FetchListingFrom(Listings)

(* ------------------- process_record_from_rows -------------------------- *)
\* row.find_all('td') has a first column (cols[0] does not raise).
FirstColumnPresent(row) == row.kind # "empty"

\* every column read for the leading row (cols[0]..cols[9]) is present.
AllColumnsPresent(row) == row.kind = "full"

\* What the anchor of cols[0] gives (lines 173-187): no anchor, a detail
\* link from which extract_accession_info gets nothing, or a detail link
\* with accession and docClass.
LinkKinds == {"none", "plain", "doc"}

detail_link_of(lk) == IF lk = "none" THEN NULL ELSE "detail_url"

\* AsmException with the failed row counted as consumed.
AsmExceptionConsumesRow ==
    /\ record' = None
    /\ rows_consumed' = 1
    /\ pc' = "asm_done"
    /\ UNCHANGED localVars

\* lines 284-286: any exception inside the function.
AsmException ==
    /\ record' = None
    /\ rows_consumed' = 0
    /\ pc' = "asm_done"
    /\ UNCHANGED localVars

\* lines 160-190: bounds check, read cols[0], its link, and call
\* get_image_link when the link carries accession and docClass.
AsmStart ==
    /\ pc = "asm_start"
    /\ IF current_index >= Len(rows)
       THEN /\ AsmException
            /\ UNCHANGED <<look_index, link_kind, imgVars>>
       ELSE IF ~FirstColumnPresent(rows[current_index + 1])
       THEN /\ AsmException
            /\ UNCHANGED <<look_index, link_kind, imgVars>>
       ELSE \E lk \in LinkKinds :
               /\ link_kind' = lk
               /\ attempt' = 0
               /\ sleeps' = 0
               /\ poll_log' = <<>>
               /\ image_link' = NULL
               /\ img_fail' = "none"
               /\ pc' = IF lk = "doc" THEN "img_detail" ELSE "asm_build"
               /\ UNCHANGED <<record, rows_consumed, look_index>>
    /\ UNCHANGED <<driverVars, mapVars, diskVars>>
    /\ UNCHANGED localVars

(* --------------------------- get_image_link ---------------------------- *)
\* ImgFailure returning a link instead of None.
ImgFailureReturnsLink(mode) ==
    /\ image_link' = "img"
    /\ img_fail' = mode
    /\ pc' = "asm_build"

\* A failure path of get_image_link returns None (lines 62, 85, 89, 94).
ImgFailure(mode) ==
    /\ image_link' = NULL
    /\ img_fail' = mode
    /\ pc' = "asm_build"

\* lines 36-62: fetch the details page and find the getImage.ashx URL.
ImgDetail ==
    /\ pc = "img_detail"
    /\ \E outcome \in {"fetch_error", "no_url", "found"} :
          IF outcome = "found"
          THEN /\ pc' = "img_poll"
               /\ UNCHANGED <<image_link, img_fail>>
          ELSE ImgFailure(outcome)
    /\ UNCHANGED <<driverVars, asmVars, attempt, sleeps, poll_log, mapVars,
                   diskVars>>
    /\ UNCHANGED localVars

\* A poll: the request fails (raise_for_status), or the JSON carries a
\* conversionStatus and, when READY, an imageFileLink.
PollResponses ==
    {[ok |-> FALSE, status |-> NULL, link |-> NULL]}
    \cup {[ok |-> TRUE, status |-> "READY", link |-> l] : l \in ImageLinks}
    \cup {[ok |-> TRUE, status |-> s, link |-> NULL] :
             s \in {"WORKING", "FAILED"}}

\* PollOutcome with the retry bound tested before the status.
PollOutcomeBoundFirst(status, att) ==
    IF att >= max_retries THEN "timeout"
    ELSE IF status = "READY" THEN "return_link"
    ELSE IF status = "WORKING" THEN "sleep"
    ELSE "unexpected"

\* PollOutcome sleeping after the final attempt as well.
PollOutcomeSleepsLast(status, att) ==
    IF status = "READY" THEN "return_link"
    ELSE IF status = "WORKING"
         THEN IF att <= max_retries THEN "sleep" ELSE "timeout"
         ELSE "unexpected"

\* PollOutcome waiting on every status but READY.
PollOutcomeWaitsOnAny(status, att) ==
    IF status = "READY" THEN "return_link"
    ELSE IF att < max_retries THEN "sleep" ELSE "timeout"

\* lines 75-89: what one response does at poll number att.
PollOutcome(status, att) ==
    IF status = "READY" THEN "return_link"
    ELSE IF status = "WORKING"
         THEN IF att < max_retries THEN "sleep" ELSE "timeout"
         ELSE "unexpected"

\* lines 66-91: one iteration of the polling loop.
ImgPoll ==
    /\ pc = "img_poll"
    /\ IF attempt >= max_retries
       THEN /\ ImgFailure("exhausted")
            /\ UNCHANGED <<attempt, poll_log>>
       ELSE \E resp \in PollResponses :
               /\ attempt' = attempt + 1
               /\ poll_log' = Append(poll_log, resp)
               /\ IF ~resp.ok
                  THEN ImgFailure("poll_error")
                  ELSE LET o == PollOutcome(resp.status, attempt + 1) IN
                       IF o = "return_link"
                       THEN /\ image_link' = resp.link
                            /\ pc' = "asm_build"
                            /\ UNCHANGED img_fail
                       ELSE IF o = "sleep"
                       THEN /\ pc' = "img_sleep"
                            /\ UNCHANGED <<image_link, img_fail>>
                       ELSE ImgFailure(o)
    /\ UNCHANGED <<driverVars, asmVars, sleeps, mapVars, diskVars>>
    /\ UNCHANGED localVars

\* line 82: time.sleep(retry_delay), then the next iteration.
ImgSleep ==
    /\ pc = "img_sleep"
    /\ sleeps' = sleeps + 1
    /\ pc' = "img_poll"
    /\ UNCHANGED <<driverVars, asmVars, attempt, poll_log, image_link,
                   img_fail, mapVars, diskVars>>
    /\ UNCHANGED localVars

(* --------------------------- parse_patentees --------------------------- *)
\* A cell is the sequence of its break-delimited segments (lines 22-30:
\* the markup and its text rendering are split on the same marker, so
\* html_parts[i] and text_parts[i] belong to the same segment).  A segment
\* holds the icon file names its markup mentions and its stripped text; a
\* text is the sequence of its comma-separated pieces, a piece the sequence
\* of its words.  <<<<>>>> is the empty text, <<<<"SMITH">>, <<>>>> is
\* "SMITH,".
SegmentTexts ==
    {<< <<>> >>,
     << <<"Patentee", "Names">> >>,
     << <<"Warrantee">> >>,
     << <<"SMITH">> >>,
     << <<"JONES">> >>,
     << <<"SMITH">>, <<"JOHN">> >>,
     << <<"SMITH">>, <<"JOHN", "Q">> >>,
     << <<"SMITH">>, <<"JOHN", "Q", "JR">> >>,
     << <<"SMITH">>, <<"JONES">>, <<"BROWN">> >>,
     << <<"SMITH">>, <<>> >>,
     << <<>>, <<>> >>,
     << <<"SMITH">>, <<>>, <<"JOHN">> >>,
     << <<"SMITH">>, <<>>, <<>> >>}

SegmentIcons ==
    {{}, {"patentee.png"}, {"warrantee.png"}, {"assignee.png"},
     {"widow.png"}, {"heir.png"}, {"warrantee.png", "heir.png"}}

Segments == [html : SegmentIcons, text : SegmentTexts]

PatenteeCells ==
    UNION {[1..n -> Segments] : n \in 1..MaxSegments}

\* lines 39-51: the first icon of the chain that the segment's markup holds.
person_type(html_before) ==
    IF "patentee.png" \in html_before THEN "patentee"
    ELSE IF "warrantee.png" \in html_before THEN "warrantee"
    ELSE IF "assignee.png" \in html_before THEN "assignee"
    ELSE IF "widow.png" \in html_before THEN "widow"
    ELSE IF "heir.png" \in html_before THEN "heir"
    ELSE "unknown"

\* lines 35-36: the segment is empty or starts with a header label.
SkippedPart(part) ==
    \/ part = << <<>> >>
    \/ Len(part[1]) > 0 /\ part[1][1] \in {"Patentee", "Warrantee"}

\* line 55: the stripped comma-separated pieces that are not empty.
SplitNames(part) == SelectSeq(part, LAMBDA piece : piece # <<>>)

\* A name is a string, held as the sequence of the texts it is made of:
\* the whole stripped segment, or one stripped piece.
PartName(part) == <<part>>
PieceName(piece) == << <<piece>> >>

Person(name, type) ==
    [name |-> name, type |-> type, additional_info |-> NULL]

\* The "Last, First" test with the word bound off by one.
LastFirstThreeWords(names) == Len(names) = 2 /\ Len(names[2]) <= 3

\* line 61: two names, the second of at most two words.
LastFirst(names) == Len(names) = 2 /\ Len(names[2]) <= 2

\* SegmentType reading the markup of the first segment for every segment.
FirstSegmentType(cell, i) == person_type(cell[1].html)

\* lines 39-51: html_before is the markup of segment i.
SegmentType(cell, i) == person_type(cell[i].html)

\* lines 33-83: what one iteration of the loop appends.
SegmentPersons(cell, i) ==
    LET part == cell[i].text
        type == SegmentType(cell, i)
        names == SplitNames(part)
    IN IF SkippedPart(part) THEN <<>>
       ELSE IF Len(names) > 1
       THEN IF LastFirst(names)
            THEN <<Person(PartName(part), type)>>
            ELSE [k \in 1..Len(names) |-> Person(PieceName(names[k]), type)]
       ELSE <<Person(PartName(part), type)>>

RECURSIVE LoopPatentees(_, _)
\* lines 33-83: the list after the first n iterations.
LoopPatentees(cell, n) ==
    IF n = 0 THEN <<>>
    ELSE LoopPatentees(cell, n - 1) \o SegmentPersons(cell, n)

\* line 89: patentee_cell.text.strip(), the texts of the cell run together.
CellText(cell) ==
    SelectSeq([i \in 1..Len(cell) |-> cell[i].text],
              LAMBDA part : part # << <<>> >>)

\* The fallback of lines 86-91 left out.
NoFallback(cell, found) == found

\* lines 86-91: an empty list is replaced by one person of unknown type.
Fallback(cell, found) ==
    IF found = <<>> THEN <<Person(CellText(cell), "unknown")>> ELSE found

\* lines 3-93.
parse_patentees(cell) == Fallback(cell, LoopPatentees(cell, Len(cell)))

(* ------------- process_record_from_rows, continued --------------------- *)
\* lines 225-233 and 268-274: the parcel read from a row.
ParcelOf(row) == row.parcel

\* cols[1] of a listing row: in the runs of the driver every row names
\* "SMITH, JOHN", without icon.
ListedNames(row) ==
    <<[html |-> {}, text |-> << <<"SMITH">>, <<"JOHN">> >>]>>

\* NewRecord leaving the parcel of the leading row to the lookahead.
NewRecordWithoutParcel(row, lk, img) ==
    [accession |-> row.acc,
     cancelled |-> NULL,
     basic_land_office |-> "absent",
     land_office |-> NULL,
     total_acres |-> NULL,
     patentees |-> parse_patentees(ListedNames(row)),
     warrantees |-> <<>>,
     assignees |-> <<>>,
     parcels |-> <<>>,
     state_name |-> NULL,
     legal_description |-> <<>>,
     detail_link |-> detail_link_of(lk),
     image_link |-> img,
     local_image_path |-> NULL]

\* lines 193-254: the record built from the leading row.
NewRecord(row, lk, img) ==
    [accession |-> row.acc,
     cancelled |-> NULL,
     basic_land_office |-> "absent",   \* basic_info has no such key
     land_office |-> NULL,
     total_acres |-> NULL,
     patentees |-> parse_patentees(ListedNames(row)),   \* line 241
     warrantees |-> <<>>,              \* people has no such key
     assignees |-> <<>>,               \* people has no such key
     parcels |-> <<ParcelOf(row)>>,
     state_name |-> NULL,
     legal_description |-> <<>>,
     detail_link |-> detail_link_of(lk),
     image_link |-> img,
     local_image_path |-> NULL]

\* lines 193-259: build the record; a missing column raises.
AsmBuild ==
    /\ pc = "asm_build"
    /\ IF ~AllColumnsPresent(rows[current_index + 1])
       THEN /\ AsmException
            /\ UNCHANGED look_index
       ELSE /\ record' = NewRecord(rows[current_index + 1], link_kind,
                                   image_link)
            /\ rows_consumed' = 1
            /\ look_index' = current_index + 1
            /\ pc' = "asm_look"
    /\ attempt' = 0
    /\ sleeps' = 0
    /\ poll_log' = <<>>
    /\ UNCHANGED <<driverVars, link_kind, image_link, img_fail, mapVars,
                   diskVars>>
    /\ UNCHANGED localVars

\* SameAccession accepting every follow-on row.
SameAccessionAlways(next_accession, accession) == TRUE

\* line 267: the follow-on row belongs to the same record.
SameAccession(next_accession, accession) == next_accession = accession

\* AppendParcel counting the row without storing its parcel.
AppendParcelDropped(parcels, row) == parcels

\* line 275.
AppendParcel(parcels, row) == Append(parcels, ParcelOf(row))

\* lines 261-282: one iteration of the lookahead loop.
AsmLook ==
    /\ pc = "asm_look"
    /\ IF look_index < Len(rows)
       THEN LET next_row == rows[look_index + 1] IN
            IF ~FirstColumnPresent(next_row)
            THEN /\ AsmException
                 /\ UNCHANGED look_index
            ELSE IF SameAccession(next_row.acc,
                                  rows[current_index + 1].acc)
            THEN IF ~AllColumnsPresent(next_row)
                 THEN /\ AsmException
                      /\ UNCHANGED look_index
                 ELSE /\ record' = [record EXCEPT
                             !.parcels = AppendParcel(@, next_row)]
                      /\ look_index' = look_index + 1
                      /\ rows_consumed' = rows_consumed + 1
                      /\ pc' = "asm_look"
            ELSE /\ pc' = "asm_done"
                 /\ UNCHANGED <<record, rows_consumed, look_index>>
       ELSE /\ pc' = "asm_done"
            /\ UNCHANGED <<record, rows_consumed, look_index>>
    /\ UNCHANGED <<driverVars, link_kind, imgVars, mapVars, diskVars>>
    /\ UNCHANGED localVars

(* ------------------------ main: per-record steps ----------------------- *)
\* AfterAssemble moving the cursor by one row whatever was consumed.
AfterAssembleByOne ==
    /\ pc = "asm_done"
    /\ current_index' = current_index + 1
    /\ pc' = IF record = None THEN "while" ELSE "enhance"
    /\ img_fail' = "none"
    /\ image_link' = NULL
    /\ link_kind' = NULL
    /\ look_index' = 0
    /\ UNCHANGED <<states_data, state_i, table_rows, total_records,
                   enhanced_records, processed_records, fetch_log, record,
                   rows_consumed, attempt, sleeps, poll_log, mapVars,
                   diskVars>>
    /\ UNCHANGED localVars

\* AfterAssemble leaving the cursor on a row that gave no record.
AfterAssembleStaying ==
    /\ pc = "asm_done"
    /\ IF record = None
       THEN /\ current_index' = current_index
            /\ pc' = "while"
       ELSE /\ current_index' = current_index + rows_consumed
            /\ pc' = "enhance"
    /\ img_fail' = "none"
    /\ image_link' = NULL
    /\ link_kind' = NULL
    /\ look_index' = 0
    /\ UNCHANGED <<states_data, state_i, table_rows, total_records,
                   enhanced_records, processed_records, fetch_log, record,
                   rows_consumed, attempt, sleeps, poll_log, mapVars,
                   diskVars>>
    /\ UNCHANGED localVars

\* lines 687-698: a failed row is skipped by one position, otherwise the
\* cursor moves past the consumed rows.
AfterAssemble ==
    /\ pc = "asm_done"
    /\ IF record = None
       THEN /\ current_index' = current_index + 1
            /\ pc' = "while"
       ELSE /\ current_index' = current_index + rows_consumed
            /\ pc' = "enhance"
    /\ img_fail' = "none"
    /\ image_link' = NULL
    /\ link_kind' = NULL
    /\ look_index' = 0
    /\ UNCHANGED <<states_data, state_i, table_rows, total_records,
                   enhanced_records, processed_records, fetch_log, record,
                   rows_consumed, attempt, sleeps, poll_log, mapVars,
                   diskVars>>
    /\ UNCHANGED localVars

(* --------------------- enhance_record_with_details --------------------- *)
\* The detail fields followed here, in the order of their lookups:
\* lines 326, 336, 376, 456 and 531.
DetailFields ==
    <<"cancelled", "land_office", "accession", "total_acres", "names">>

\* What the detail page fetch gives: a failure (network error, non-2xx) or
\* a page.  Of a page: the text found for each field (NULL when neither
\* lookup of the field finds anything; for cancelled the two lookups are
\* kept apart, they write to different places); names is None or the
\* element with id "names", as a cell; raises is the position in
\* DetailFields of the field whose lookup raises, 0 when none does.
Page(cid, clabel, office, acc, acres, names, raises) ==
    [ok |-> TRUE, cancelled_id |-> cid, cancelled_label |-> clabel,
     land_office |-> office, accession |-> acc, total_acres |-> acres,
     names |-> names, raises |-> raises]

FailedFetch ==
    [ok |-> FALSE, cancelled_id |-> NULL, cancelled_label |-> NULL,
     land_office |-> NULL, accession |-> NULL, total_acres |-> NULL,
     names |-> None, raises |-> 0]

\* The pages the driver is run against: only the accession varies.
DetailPages ==
    {FailedFetch}
    \cup {Page(NULL, NULL, NULL, a, NULL, None, 0) : a \in PageAccessions}

\* Names elements: a patentee and a warrantee; a warrantee alone; a header
\* label alone; three patentees in one segment; an assignee alone.
NamesCells ==
    {<<[html |-> {"patentee.png"}, text |-> << <<"SMITH">> >>],
       [html |-> {"warrantee.png"}, text |-> << <<"JONES">> >>]>>,
     <<[html |-> {"warrantee.png"}, text |-> << <<"JONES">> >>]>>,
     <<[html |-> {}, text |-> << <<"Patentee", "Names">> >>]>>,
     <<[html |-> {"patentee.png"},
        text |-> << <<"SMITH">>, <<"JONES">>, <<"BROWN">> >>]>>,
     <<[html |-> {"assignee.png"}, text |-> << <<"SMITH">> >>]>>}

AllDetailPages ==
    {FailedFetch}
    \cup {Page(cid, clabel, office, a, acres, names, raises) :
             cid \in {NULL, "no"}, clabel \in {NULL, "sibling"},
             office \in {NULL, "office"}, a \in PageAccessions,
             acres \in {NULL, "160"},
             names \in {None} \cup {[cell |-> c] : c \in NamesCells},
             raises \in 0..Len(DetailFields)}

\* lines 312-317: one description per parcel, joined in parcel order.
LegalDescription(parcels) == parcels

\* The description built by taking the parcels out of the record.
DescribeAndDropParcels(rec, sname) ==
    [rec EXCEPT !.state_name = sname,
                !.legal_description = LegalDescription(rec.parcels),
                !.parcels = <<>>]

\* lines 309-317: state name and consolidated legal description.
DescribeLocation(rec, sname) ==
    [rec EXCEPT !.state_name = sname,
                !.legal_description = LegalDescription(rec.parcels)]

\* lines 375-383: the accession field after the detail lookup.
EnhancedAccession(old, page) ==
    IF page.accession # NULL THEN page.accession ELSE old

\* line 537, 542, 546: the persons of one type, in order.
OfType(people, type) == SelectSeq(people, LAMBDA person : person.type = type)

\* lines 536-548: each list is stored only when it is not empty.
ExtractNames(rec, people) ==
    [rec EXCEPT
        !.patentees = IF OfType(people, "patentee") # <<>>
                      THEN OfType(people, "patentee") ELSE @,
        !.warrantees = IF OfType(people, "warrantee") # <<>>
                       THEN OfType(people, "warrantee") ELSE @,
        !.assignees = IF OfType(people, "assignee") # <<>>
                      THEN OfType(people, "assignee") ELSE @]

\* ExtractCancelled with the fallback storing under misc_info.land_office.
ExtractCancelledIntoMisc(rec, page) ==
    IF page.cancelled_id # NULL
    THEN [rec EXCEPT !.cancelled = page.cancelled_id]
    ELSE IF page.cancelled_label # NULL
    THEN [rec EXCEPT !.land_office = page.cancelled_label]
    ELSE rec

\* lines 325-333: the element with id "cancelled" goes to
\* basic_info.cancelled; without it, the sibling of the "Cancelled" label
\* goes to basic_info["land_office"].
ExtractCancelled(rec, page) ==
    IF page.cancelled_id # NULL
    THEN [rec EXCEPT !.cancelled = page.cancelled_id]
    ELSE IF page.cancelled_label # NULL
    THEN [rec EXCEPT !.basic_land_office = page.cancelled_label]
    ELSE rec

\* One field block of lines 325-548: lookup by id, else by label.
ExtractField(rec, page, field) ==
    CASE field = "cancelled" -> ExtractCancelled(rec, page)
      [] field = "land_office" ->
           IF page.land_office # NULL
           THEN [rec EXCEPT !.land_office = page.land_office]
           ELSE rec
      [] field = "accession" ->
           [rec EXCEPT !.accession = EnhancedAccession(@, page)]
      [] field = "total_acres" ->
           IF page.total_acres # NULL
           THEN [rec EXCEPT !.total_acres = page.total_acres]
           ELSE rec
      [] field = "names" ->
           IF page.names = None THEN rec
           ELSE ExtractNames(rec, parse_patentees(page.names.cell))

RECURSIVE ExtractFields(_, _, _)
\* lines 320-551: the first k field blocks, all inside one try; a raise in
\* a block leaves the try, so that block and the later ones assign nothing.
ExtractFields(rec, page, k) ==
    IF k = 0 THEN rec
    ELSE LET before == ExtractFields(rec, page, k - 1) IN
         IF page.raises # 0 /\ page.raises <= k THEN before
         ELSE ExtractField(before, page, DetailFields[k])

\* enhance_record_with_details describing the location before the fetch.
enhance_record_describing_first(rec, sname, page) ==
    IF rec.detail_link = NULL THEN rec
    ELSE IF ~page.ok THEN DescribeLocation(rec, sname)
    ELSE ExtractFields(DescribeLocation(rec, sname), page, Len(DetailFields))

\* lines 288-557.
enhance_record_with_details(rec, sname, page) ==
    IF rec.detail_link = NULL THEN rec
    ELSE IF ~page.ok THEN rec
    ELSE ExtractFields(DescribeLocation(rec, sname), page, Len(DetailFields))

\* main, line 701, and lines 290-306: without a detail link the record is
\* returned as it is, otherwise the detail page is requested.
EnhanceFrom(pages) ==
    /\ pc = "enhance"
    /\ IF record.detail_link = NULL
       THEN /\ pc' = "download"
            /\ UNCHANGED detail_page
       ELSE /\ \E page \in pages : detail_page' = page
            /\ pc' = "extract"
    /\ UNCHANGED <<driverVars, asmVars, imgVars, mapVars, diskVars,
                   parseVars, image_saved>>

Enhance == EnhanceFrom(DetailPages)

\* lines 306-557: the record after the response has arrived.
ExtractDetails ==
    /\ pc = "extract"
    /\ record' = enhance_record_with_details(record, state_name, detail_page)
    /\ detail_page' = None
    /\ pc' = "download"
    /\ UNCHANGED <<driverVars, rows_consumed, look_index, link_kind, imgVars,
                   mapVars, diskVars, parseVars, image_saved>>

(* ------------------------ download_patent_image ------------------------ *)
\* download_patent_image setting the local path whatever download_image
\* returned.
download_patent_image_unchecked(rec, downloaded) ==
    IF rec.image_link = NULL THEN rec
    ELSE [rec EXCEPT !.local_image_path = "local_path"]

\* lines 559-590: the local path is set when download_image returns True.
download_patent_image(rec, downloaded) ==
    IF rec.image_link = NULL THEN rec
    ELSE IF downloaded THEN [rec EXCEPT !.local_image_path = "local_path"]
    ELSE rec

\* main, lines 704-706, and download_image, lines 96-109: without an image
\* link nothing is downloaded; otherwise download_image returns True or,
\* on any failure, False.
Download ==
    /\ pc = "download"
    /\ IF record.image_link # NULL
       THEN \E downloaded \in BOOLEAN :
               /\ record' = download_patent_image(record, downloaded)
               /\ image_saved' = IF downloaded THEN "yes" ELSE "no"
       ELSE UNCHANGED <<record, image_saved>>
    /\ pc' = "append"
    /\ UNCHANGED <<driverVars, rows_consumed, look_index, link_kind, imgVars,
                   mapVars, diskVars, parseVars, detail_page>>

(* --------------------------- progress tracking ------------------------- *)
\* main, lines 709-710.
AppendRecord ==
    /\ pc = "append"
    /\ enhanced_records' = Append(enhanced_records, record)
    /\ processed_records' = processed_records + 1
    /\ image_saved' = "none"
    /\ pc' = "open_file"
    /\ UNCHANGED <<states_data, state_i, table_rows, total_records,
                   current_index, fetch_log, asmVars, imgVars, mapVars,
                   diskVars, parseVars, detail_page>>

\* main, line 713: open(file_path, "w") truncates the unit's file.
OpenRecordFile ==
    /\ pc = "open_file"
    /\ record_files' = [record_files EXCEPT ![file_path] = Truncated]
    /\ pc' = "dump_file"
    /\ UNCHANGED <<driverVars, asmVars, imgVars, mapVars, dirs, mapping_file>>
    /\ UNCHANGED localVars

\* main, line 714: json.dump of the whole collection, then close.
DumpRecordFile ==
    /\ pc = "dump_file"
    /\ record_files' = [record_files EXCEPT
                           ![file_path] = Written(enhanced_records)]
    /\ pc' = "upsert"
    /\ UNCHANGED <<driverVars, asmVars, imgVars, mapVars, dirs, mapping_file>>
    /\ UNCHANGED localVars

\* CompletionPercentage cut off after the second decimal.
CompletionPercentageCut(processed, total) ==
    IF total > 0
    THEN (processed * 10000) \div total
    ELSE 0

\* CompletionPercentage as a ratio, without the factor 100.
CompletionRatio(processed, total) ==
    IF total > 0
    THEN (2 * processed * 100 + total) \div (2 * total)
    ELSE 0

\* main, line 726: round((processed / total) * 100, 2) if total > 0 else 0,
\* in hundredths of a percent.  The quotient is rounded to the nearest
\* hundredth; for totals below 64 no quotient lies half-way between two
\* hundredths, so the tie rule of round() never applies.
CompletionPercentage(processed, total) ==
    IF total > 0
    THEN (2 * processed * 10000 + total) \div (2 * total)
    ELSE 0

\* main, lines 717-728.
BuildCountyData(abbr, cid, total, processed) ==
    [state_abbreviation |-> abbr,
     county_id |-> cid,
     total_records |-> total,
     processed_records |-> processed,
     completion_percentage |-> CompletionPercentage(processed, total)]

\* SameUnit matching on the county id alone.
SameCounty(county_map, cd) == county_map.county_id = cd.county_id

\* main, line 733: the entry is the one of this unit.
SameUnit(county_map, cd) ==
    /\ county_map.county_id = cd.county_id
    /\ county_map.state_abbreviation = cd.state_abbreviation

RECURSIVE ScanMapping(_, _, _)
\* main, lines 731-739: linear scan from position i; the first entry of the
\* unit is replaced and the scan stops, otherwise the entry is appended.
ScanMapping(mapping, cd, i) ==
    IF i > Len(mapping) THEN Append(mapping, cd)
    ELSE IF SameUnit(mapping[i], cd) THEN [mapping EXCEPT ![i] = cd]
    ELSE ScanMapping(mapping, cd, i + 1)

UpsertMapping(mapping, cd) == ScanMapping(mapping, cd, 1)

\* Upsert leaving the mapping file to the end of the unit.
UpsertWithoutSave ==
    /\ pc = "upsert"
    /\ LET cd == BuildCountyData(state_abbr, county_id, total_records,
                                 processed_records) IN
          /\ county_data' = cd
          /\ county_mapping' = UpsertMapping(county_mapping, cd)
    /\ pc' = "while"
    /\ UNCHANGED <<driverVars, asmVars, imgVars, diskVars, localVars>>

\* main, lines 717-739.
Upsert ==
    /\ pc = "upsert"
    /\ LET cd == BuildCountyData(state_abbr, county_id, total_records,
                                 processed_records) IN
          /\ county_data' = cd
          /\ county_mapping' = UpsertMapping(county_mapping, cd)
    /\ pc' = "open_map"
    /\ UNCHANGED <<driverVars, asmVars, imgVars, diskVars>>
    /\ UNCHANGED localVars

\* main, line 743: open(mapping_file, "w") truncates the mapping file.
OpenMappingFile ==
    /\ pc = "open_map"
    /\ mapping_file' = Truncated
    /\ pc' = "dump_map"
    /\ UNCHANGED <<driverVars, asmVars, imgVars, mapVars, dirs, record_files>>
    /\ UNCHANGED localVars

\* main, lines 744-746: json.dump of the whole mapping, then close.
DumpMappingFile ==
    /\ pc = "dump_map"
    /\ mapping_file' = Written(county_mapping)
    /\ pc' = "while"
    /\ UNCHANGED <<driverVars, asmVars, imgVars, mapVars, dirs, record_files>>
    /\ UNCHANGED localVars

(* --------------------------- specification ----------------------------- *)
Next ==
    \/ LoadStates
    \/ LoadFails
    \/ ForState
    \/ FetchListing
    \/ WhileTest
    \/ Finish
    \/ AsmStart
    \/ ImgDetail
    \/ ImgPoll
    \/ ImgSleep
    \/ AsmBuild
    \/ AsmLook
    \/ AfterAssemble
    \/ Enhance
    \/ ExtractDetails
    \/ Download
    \/ AppendRecord
    \/ OpenRecordFile
    \/ DumpRecordFile
    \/ Upsert
    \/ OpenMappingFile
    \/ DumpMappingFile

Spec == Init /\ [][Next]_vars

(* ------------------ the driver over several units --------------------- *)
\* main as in Spec, against listings of at most MaxUnitRows rows.
ShortListings == UNION {RowSeqs(n) : n \in 0..MaxUnitRows}

FetchShortListing == FetchListingFrom(ShortListings)

NextUnits ==
    \/ LoadStates
    \/ LoadFails
    \/ ForState
    \/ FetchShortListing
    \/ WhileTest
    \/ Finish
    \/ AsmStart
    \/ ImgDetail
    \/ ImgPoll
    \/ ImgSleep
    \/ AsmBuild
    \/ AsmLook
    \/ AfterAssemble
    \/ Enhance
    \/ ExtractDetails
    \/ Download
    \/ AppendRecord
    \/ OpenRecordFile
    \/ DumpRecordFile
    \/ Upsert
    \/ OpenMappingFile
    \/ DumpMappingFile

SpecUnits == Init /\ [][NextUnits]_vars

(* -------------------- the driver over a single unit -------------------- *)
\* main as in Spec, for an input of one state with one county and
\* listings of at most MaxLoopRows rows.
LoopListings == UNION {RowSeqs(n) : n \in 0..MaxLoopRows}

LoadSingleUnit == LoadStatesFrom({<<StateEntry(1, 1)>>})

FetchLoopListing == FetchListingFrom(LoopListings)

NextLoop ==
    \/ LoadSingleUnit
    \/ LoadFails
    \/ ForState
    \/ FetchLoopListing
    \/ WhileTest
    \/ Finish
    \/ AsmStart
    \/ ImgDetail
    \/ ImgPoll
    \/ ImgSleep
    \/ AsmBuild
    \/ AsmLook
    \/ AfterAssemble
    \/ Enhance
    \/ ExtractDetails
    \/ Download
    \/ AppendRecord
    \/ OpenRecordFile
    \/ DumpRecordFile
    \/ Upsert
    \/ OpenMappingFile
    \/ DumpMappingFile

SpecLoop == Init /\ [][NextLoop]_vars

\* main is one sequential thread: the statement it stands at is executed.
\* The polls of get_image_link are at most max_retries.
SpecLoopFair == SpecLoop /\ WF_vars(NextLoop)

(* ---------------- the record assembler on its own ---------------------- *)
\* process_record_from_rows(rows, index, ...) applied to every listing and
\* every start index inside it, followed by the driver's reaction to its
\* result (main, lines 687-695).
InitAsm ==
    /\ pc = "asm_start"
    /\ \E l \in Listings \ {<<>>} :
          /\ table_rows = [rows |-> l]
          /\ current_index \in 0..(Len(l) - 1)
    /\ InitOther

NextAsm ==
    \/ AsmStart
    \/ ImgDetail
    \/ ImgPoll
    \/ ImgSleep
    \/ AsmBuild
    \/ AsmLook
    \/ AfterAssemble

SpecAsm == InitAsm /\ [][NextAsm]_vars

(* ---------------- the mapping update on its own ------------------------ *)
InitTracker ==
    /\ pc = "tracker"
    /\ table_rows = None
    /\ current_index = 0
    /\ InitOther

\* main, lines 717-728, for every processed/total pair.
ComputeCountyData ==
    /\ pc = "tracker"
    /\ \E processed \in 0..max_records, total \in 0..MaxTotal :
          county_data' = BuildCountyData("S1", "c1", total, processed)
    /\ UNCHANGED <<pc, driverVars, asmVars, imgVars, county_mapping,
                   diskVars>>
    /\ UNCHANGED localVars

NextPct == ComputeCountyData

SpecPct == InitTracker /\ [][NextPct]_vars

\* Units whose keys share a state or a county id.
TrackerUnits == {<<"S1", "c1">>, <<"S1", "c2">>, <<"S2", "c1">>}

\* main, lines 717-739, re-run for any unit and processed count, starting
\* from the empty mapping of line 634.
UpdateMapping ==
    /\ pc = "tracker"
    /\ \E u \in TrackerUnits, processed \in 1..MaxProcessed :
          LET cd == BuildCountyData(u[1], u[2], MaxProcessed, processed) IN
             /\ county_data' = cd
             /\ county_mapping' = UpsertMapping(county_mapping, cd)
    /\ UNCHANGED <<pc, driverVars, asmVars, imgVars, diskVars>>
    /\ UNCHANGED localVars

NextUpsert == UpdateMapping

SpecUpsert == InitTracker /\ [][NextUpsert]_vars

(* ------------------- the enrichment on its own ------------------------- *)
\* cols[1] of the leading row: "SMITH, JOHN" without icon; a patentee and
\* a warrantee; an empty cell.
ListedCells ==
    {<<[html |-> {}, text |-> << <<"SMITH">>, <<"JOHN">> >>]>>,
     <<[html |-> {"patentee.png"}, text |-> << <<"SMITH">> >>],
       [html |-> {"warrantee.png"}, text |-> << <<"JONES">> >>]>>,
     <<[html |-> {}, text |-> << <<>> >>]>>}

\* The records process_record_from_rows returns: one parcel per consumed
\* row, an image link only behind a document link.
AssembledRecords ==
    {[NewRecord(Row("full", acc, 1), c[1], c[2]) EXCEPT
         !.parcels = [i \in 1..n |-> i],
         !.patentees = parse_patentees(cell)] :
       acc \in Accessions, n \in 1..MaxRows,
       c \in {<<"none", NULL>>, <<"plain", NULL>>}
             \cup ({"doc"} \X ImageLinks),
       cell \in ListedCells}

\* enhance_record_with_details(record, state_name) for every assembled
\* record, in a unit of the first state.
InitEnrich ==
    /\ pc = "enhance"
    /\ table_rows = None
    /\ current_index = 0
    /\ states_data = <<StateEntry(1, 1)>>
    /\ state_i = 1
    /\ record \in AssembledRecords
    /\ patentee_cell = <<>>
    /\ InitLocals

EnhanceAnyPage == EnhanceFrom(AllDetailPages)

NextEnrich ==
    \/ EnhanceAnyPage
    \/ ExtractDetails

SpecEnrich == InitEnrich /\ [][NextEnrich]_vars

(* ------------------- parse_patentees on its own ------------------------ *)
\* parse_patentees applied to every cell.
InitNames ==
    /\ pc = "parse"
    /\ table_rows = None
    /\ current_index = 0
    /\ states_data = <<>>
    /\ state_i = 0
    /\ record = None
    /\ patentee_cell \in PatenteeCells
    /\ InitLocals

ParsePatentees ==
    /\ pc = "parse"
    /\ patentees' = parse_patentees(patentee_cell)
    /\ pc' = "parsed"
    /\ UNCHANGED <<driverVars, asmVars, imgVars, mapVars, diskVars,
                   patentee_cell, detail_page, image_saved>>

NextNames == ParsePatentees

SpecNames == InitNames /\ [][NextNames]_vars

(* ======================= properties of the assembler =================== *)
\* Row r carries the identity key of the leading row.
SharesKey(r, lead) == r.kind # "empty" /\ lead.kind # "empty" /\ r.acc = lead.acc

\* Number of contiguous rows of l, from 0-based position i on, that share
\* the key of row i.
RunLength(l, i) ==
    Cardinality({n \in 1..(Len(l) - i) :
                    \A j \in 1..n : SharesKey(l[i + j], l[i + 1])})

\* The row at the start index.
LeadingRow == rows[current_index + 1]

\* process_record_from_rows has returned and the driver has not yet acted.
Returned == pc = "asm_done"

\* C1 (as stated): for every row sequence and every start index inside it,
\* process_record_from_rows consumes exactly the number of contiguous rows
\* from the start index that share the leading row's accession, and never
\* fewer than 1.
C1_AlwaysConsumesRun ==
    Returned =>
        /\ rows_consumed >= 1
        /\ rows_consumed = RunLength(rows, current_index)

\* C1 (amended): whenever process_record_from_rows returns a record it has
\* consumed exactly the number of contiguous rows from the start index that
\* share the leading row's accession, and at least 1; whenever it returns
\* no record it has consumed 0 rows.
C1_ConsumesRunWhenRecord ==
    Returned =>
        IF record # None
        THEN /\ rows_consumed >= 1
             /\ rows_consumed = RunLength(rows, current_index)
        ELSE rows_consumed = 0

\* A run of two rows ended by a row of another accession.
C1_Witness ==
    /\ Returned
    /\ record # None
    /\ Len(rows) = 3
    /\ current_index = 0
    /\ rows_consumed = 2

\* C2: whenever process_record_from_rows returns a record, the record has as
\* many parcels as rows were consumed, and the parcels are those of the
\* consumed rows in listing order.
C2_ParcelsAreConsumedRows ==
    (Returned /\ record # None) =>
        /\ Len(record.parcels) = rows_consumed
        /\ \A j \in 1..rows_consumed :
              record.parcels[j] = ParcelOf(rows[current_index + j])

\* A record of two parcels that starts after the first row.
C2_Witness ==
    /\ Returned
    /\ record # None
    /\ current_index = 1
    /\ Len(record.parcels) = 2

\* C3: an empty or column-deficient row at the start index yields no record
\* and zero consumed rows, and no step of the assembler moves the driver's
\* cursor; the skip is the driver's own step.
C3_MalformedRowYieldsNothing ==
    [][/\ (pc' = "asm_done" /\ ~AllColumnsPresent(LeadingRow)')
             => (record' = None /\ rows_consumed' = 0)
       /\ (pc # "asm_done") => current_index' = current_index
       /\ (pc = "asm_done" /\ record = None)
             => current_index' = current_index + 1]_vars

\* A column-deficient row after the first row was read and rejected.
C3_Witness ==
    /\ Returned
    /\ current_index = 1
    /\ LeadingRow.kind = "short"
    /\ record = None
    /\ rows_consumed = 0

\* C4 (as stated): only a row that is itself missing expected columns is
\* skipped by the driver's one-position retry, and when the unit's loop
\* ends every well-formed row of the listing has been assembled into a
\* record of the unit.
AssembledParcels ==
    UNION {{enhanced_records[k].parcels[j] :
               j \in 1..Len(enhanced_records[k].parcels)} :
           k \in 1..Len(enhanced_records)}

C4_OnlyMalformedRowSkipped ==
    /\ (pc = "asm_done" /\ record = None) => ~AllColumnsPresent(LeadingRow)
    /\ (pc = "end" /\ table_rows # None /\ processed_records < max_records)
          => \A i \in 1..Len(rows) :
                AllColumnsPresent(rows[i])
                   => ParcelOf(rows[i]) \in AssembledParcels

(* ==================== properties of image resolution =================== *)
Working(resp) == resp.ok /\ resp.status = "WORKING"
Ready(resp) == resp.ok /\ resp.status = "READY"

\* C5: when the first non-WORKING response is READY at attempt k, with
\* k <= max_retries, get_image_link returns that response's image link and
\* issues no poll request after attempt k.
C5_FirstReadyReturnsLink ==
    \A k \in 1..Len(poll_log) :
        (/\ k <= max_retries
         /\ Ready(poll_log[k])
         /\ \A j \in 1..(k - 1) : Working(poll_log[j]))
        => /\ Len(poll_log) = k
           /\ attempt = k
           /\ pc = "asm_build"
           /\ img_fail = "none"
           /\ image_link = poll_log[k].link

\* READY arrives at the last permitted attempt.
C5_Witness ==
    /\ pc = "asm_build"
    /\ Len(poll_log) = max_retries
    /\ Ready(poll_log[max_retries])
    /\ image_link = "img"

\* C6: when every poll response is WORKING, get_image_link returns a
\* timeout failure with no image link after exactly max_retries poll
\* requests, having slept exactly max_retries - 1 times: one sleep after
\* each attempt but the final one.
C6_AllWorkingTimesOut ==
    /\ Len(poll_log) <= max_retries
    /\ (poll_log # <<>> /\ \A j \in 1..Len(poll_log) : Working(poll_log[j]))
          => IF Len(poll_log) < max_retries
             THEN /\ pc \in {"img_sleep", "img_poll"}
                  /\ sleeps = IF pc = "img_sleep" THEN Len(poll_log) - 1
                                                  ELSE Len(poll_log)
                  /\ img_fail = "none"
             ELSE /\ pc = "asm_build"
                  /\ attempt = max_retries
                  /\ sleeps = max_retries - 1
                  /\ img_fail = "timeout"
                  /\ image_link = NULL

\* The timeout has been returned.
C6_Witness ==
    /\ pc = "asm_build"
    /\ Len(poll_log) = max_retries
    /\ \A j \in 1..max_retries : Working(poll_log[j])
    /\ sleeps = max_retries - 1
    /\ image_link = NULL

\* Every row the assembler reads from the start index has the columns it
\* reads: the leading row, the rows of its run, and the first column of the
\* row after the run.
RowsReadable(l, i) ==
    LET n == RunLength(l, i) IN
       /\ n >= 1
       /\ \A j \in 1..n : AllColumnsPresent(l[i + j])
       /\ (i + n < Len(l)) => FirstColumnPresent(l[i + n + 1])

ImageFailureModes ==
    {"fetch_error", "no_url", "poll_error", "unexpected", "timeout"}

\* C7: every failure mode of image resolution (detail page fetch error,
\* conversion URL absent, poll request error, unexpected status, timeout)
\* ends with a null image link in the record, and none of them stops the
\* assembly of the record: with readable rows the record is still returned.
C7_FailureGivesNullLink ==
    (img_fail # "none") =>
        /\ img_fail \in ImageFailureModes
        /\ pc \in {"asm_build", "asm_look", "asm_done"}
        /\ image_link = NULL
        /\ (pc \in {"asm_look", "asm_done"} /\ record # None)
              => record.image_link = NULL
        /\ (pc = "asm_done" /\ RowsReadable(rows, current_index))
              => record # None

\* A record of two parcels returned after the polls timed out.
C7_Witness ==
    /\ pc = "asm_done"
    /\ img_fail = "timeout"
    /\ record # None
    /\ record.image_link = NULL
    /\ rows_consumed = 2

(* ===================== properties of the tracker ======================= *)
UnitOf(entry) == <<entry.state_abbreviation, entry.county_id>>

OneEntryPerUnit(mapping) ==
    \A i, j \in 1..Len(mapping) :
        UnitOf(mapping[i]) = UnitOf(mapping[j]) => i = j

\* C8: the mapping holds at most one entry per (state abbreviation, county
\* id); the first update for a key appends an entry, every later update for
\* that key replaces the entry in place: the length and the other entries
\* are unchanged and the entry carries the latest processed count.
C8_UpsertInPlace ==
    [][(county_mapping' # county_mapping \/ county_data' # county_data) =>
          LET cd == county_data'
              hit == {i \in 1..Len(county_mapping) :
                         UnitOf(county_mapping[i]) = UnitOf(cd)}
          IN /\ OneEntryPerUnit(county_mapping')
             /\ IF hit = {}
                THEN county_mapping' = Append(county_mapping, cd)
                ELSE /\ Len(county_mapping') = Len(county_mapping)
                     /\ \A i \in 1..Len(county_mapping) :
                           county_mapping'[i] =
                              IF i \in hit THEN cd ELSE county_mapping[i]
                     /\ \E i \in hit :
                           county_mapping'[i].processed_records
                              = cd.processed_records]_vars

\* Three units are mapped and the latest update went to the first of them.
C8_Witness ==
    /\ Len(county_mapping) = 3
    /\ county_data = county_mapping[1]
    /\ county_data.processed_records = MaxProcessed

\* The unit's output file as a snapshot of the unit's completed records:
\* absent only while at most one record is in flight, otherwise a valid
\* document holding the completed records in order, short of at most the
\* last one.
IsSnapshot(file, completed) ==
    IF ~file.exists THEN Len(completed) <= 1
    ELSE /\ file.valid
         /\ Len(file.content) <= Len(completed)
         /\ Len(file.content) >= Len(completed) - 1
         /\ \A k \in 1..Len(file.content) : file.content[k] = completed[k]

InUnit ==
    pc \in {"while", "asm_start", "img_detail", "img_poll", "img_sleep",
            "asm_build", "asm_look", "asm_done", "enhance", "extract",
            "download",
            "append", "open_file", "dump_file", "upsert", "open_map",
            "dump_map"}

\* C9 (as stated): at every point of a run, so also at a crash or kill at
\* that point, the unit's output file on disk is a valid complete snapshot
\* of progress so far: the records completed for the unit, in order, short
\* of at most the one in flight.
C9_FileIsSnapshot ==
    InUnit => IsSnapshot(record_files[file_path], enhanced_records)

\* C10 (as stated): completion_percentage for processed=3, total=10 equals
\* 4.76; for total=0 it equals 0.  Percentages are in hundredths.
C10_FourPointSevenSix ==
    (county_data # None) =>
        /\ (county_data.processed_records = 3
               /\ county_data.total_records = 10)
              => county_data.completion_percentage = 476
        /\ (county_data.total_records = 0)
              => county_data.completion_percentage = 0

\* C10 (amended): completion_percentage for processed=3, total=10 equals
\* 30.0; for total=0 it equals 0, with no division.
C10_ThirtyPercent ==
    (county_data # None) =>
        /\ (county_data.processed_records = 3
               /\ county_data.total_records = 10)
              => county_data.completion_percentage = 3000
        /\ (county_data.total_records = 0)
              => county_data.completion_percentage = 0

\* The mapping entry for 3 of 10 records has been built.
C10_Witness ==
    /\ county_data # None
    /\ county_data.processed_records = 3
    /\ county_data.total_records = 10

(* ===================== properties of parse_patentees =================== *)
Parsed == pc = "parsed"

\* Some segment of the cell is neither empty nor a header label.
SomeSegmentRead(cell) ==
    \E i \in 1..Len(cell) : ~SkippedPart(cell[i].text)

\* The persons of segment i when the comma-separated pieces are counted as
\* they stand, empty ones included.
C11_PersonsByRawPieces(cell, i) ==
    LET part == cell[i].text
        type == person_type(cell[i].html)
        full == SelectSeq(part, LAMBDA piece : piece # <<>>)
    IN IF SkippedPart(part) THEN <<>>
       ELSE IF Len(part) = 2 /\ Len(part[2]) <= 2
       THEN <<Person(<<part>>, type)>>
       ELSE [k \in 1..Len(full) |-> Person(<< <<full[k]>> >>, type)]

RECURSIVE C11_ByRawPieces(_, _)
C11_ByRawPieces(cell, n) ==
    IF n = 0 THEN <<>>
    ELSE C11_ByRawPieces(cell, n - 1) \o C11_PersonsByRawPieces(cell, n)

\* C11 as stated: a segment of exactly two comma-separated pieces whose
\* second piece has at most two words gives one person named by the whole
\* segment; any other segment gives one person per non-empty piece, named
\* by that piece.
C11_SplitOnRawPieces ==
    Parsed /\ SomeSegmentRead(patentee_cell)
    => patentees = C11_ByRawPieces(patentee_cell, Len(patentee_cell))

\* The persons of segment i when only the non-empty pieces are counted.
C11_PersonsByFullPieces(cell, i) ==
    LET part == cell[i].text
        type == person_type(cell[i].html)
        full == SelectSeq(part, LAMBDA piece : piece # <<>>)
    IN IF SkippedPart(part) THEN <<>>
       ELSE IF Len(full) < 2 \/ (Len(full) = 2 /\ Len(full[2]) <= 2)
       THEN <<Person(<<part>>, type)>>
       ELSE [k \in 1..Len(full) |-> Person(<< <<full[k]>> >>, type)]

RECURSIVE C11_ByFullPieces(_, _)
C11_ByFullPieces(cell, n) ==
    IF n = 0 THEN <<>>
    ELSE C11_ByFullPieces(cell, n - 1) \o C11_PersonsByFullPieces(cell, n)

\* C11, amended: only the non-empty comma-separated pieces of a segment are
\* counted.  With fewer than two of them, or with exactly two of which the
\* second has at most two words, the segment gives one person named by the
\* whole segment ("SMITH, JOHN" without icon gives one person "SMITH, JOHN"
\* of type unknown); otherwise it gives one person per non-empty piece,
\* named by that piece, all with the role of the segment.
C11_SplitOnFullPieces ==
    Parsed =>
       /\ SomeSegmentRead(patentee_cell)
          => patentees = C11_ByFullPieces(patentee_cell, Len(patentee_cell))
       /\ patentee_cell = <<[html |-> {},
                             text |-> << <<"SMITH">>, <<"JOHN">> >>]>>
          => patentees = <<[name |-> << << <<"SMITH">>, <<"JOHN">> >> >>,
                            type |-> "unknown",
                            additional_info |-> NULL]>>

\* "SMITH,,JOHN" has been parsed: one person, named by the whole segment.
C11_Witness ==
    /\ Parsed
    /\ Len(patentee_cell) = 1
    /\ patentee_cell[1].text = << <<"SMITH">>, <<>>, <<"JOHN">> >>
    /\ Len(patentees) = 1
    /\ patentees[1].name = <<patentee_cell[1].text>>

\* The role an icon file stands for.
IconRole(ic) ==
    CASE ic = "patentee.png" -> "patentee"
      [] ic = "warrantee.png" -> "warrantee"
      [] ic = "assignee.png" -> "assignee"
      [] ic = "widow.png" -> "widow"
      [] ic = "heir.png" -> "heir"

\* The roles of the icons that a segment's markup mentions.
RolesIn(html) ==
    IF html = {} THEN {"unknown"} ELSE {IconRole(ic) : ic \in html}

\* The name is the whole text or one of its comma-separated pieces.
NameFrom(name, part) ==
    \/ name = <<part>>
    \/ \E k \in 1..Len(part) : part[k] # <<>> /\ name = << <<part[k]>> >>

C12_Example ==
    <<[html |-> {"patentee.png"}, text |-> << <<"SMITH">> >>],
      [html |-> {"warrantee.png"}, text |-> << <<"JONES">> >>]>>

\* C12: every person read from a segment has the role of an icon in the
\* markup of the segment its name comes from, and role unknown when that
\* markup holds none of the five icons; SMITH after a patentee icon and,
\* past a break, JONES after a warrantee icon give {SMITH, patentee} and
\* {JONES, warrantee}, in this order.
C12_RoleFromOwnSegment ==
    Parsed =>
       /\ SomeSegmentRead(patentee_cell)
          => \A k \in 1..Len(patentees) :
                \E i \in 1..Len(patentee_cell) :
                   /\ ~SkippedPart(patentee_cell[i].text)
                   /\ NameFrom(patentees[k].name, patentee_cell[i].text)
                   /\ patentees[k].type \in RolesIn(patentee_cell[i].html)
       /\ patentee_cell = C12_Example
          => patentees =
                <<[name |-> << << <<"SMITH">> >> >>, type |-> "patentee",
                   additional_info |-> NULL],
                  [name |-> << << <<"JONES">> >> >>, type |-> "warrantee",
                   additional_info |-> NULL]>>

\* The example cell has been parsed into two persons of different roles.
C12_Witness ==
    /\ Parsed
    /\ patentee_cell = C12_Example
    /\ Len(patentees) = 2
    /\ patentees[1].type # patentees[2].type

\* C13: the returned list is never empty, and for a cell with nothing but
\* empty segments and header labels it is exactly one person of unknown
\* role named by the full text of the cell.
C13_NeverEmpty ==
    Parsed =>
       /\ patentees # <<>>
       /\ ~SomeSegmentRead(patentee_cell)
          => patentees = <<[name |-> CellText(patentee_cell),
                            type |-> "unknown",
                            additional_info |-> NULL]>>

\* A cell of a header label and an empty segment has been parsed.
C13_Witness ==
    /\ Parsed
    /\ Len(patentee_cell) = 2
    /\ ~SomeSegmentRead(patentee_cell)
    /\ patentee_cell[1].text # << <<>> >>
    /\ patentee_cell[2].text = << <<>> >>
    /\ Len(patentees) = 1

(* =============== properties of enhance_record_with_details ============= *)
\* C15: the parcels of a record are the same after
\* enhance_record_with_details as before it, whatever the record and
\* whatever the detail page, a failed fetch included.
C15_ParcelsKept ==
    [][(pc = "enhance" \/ pc = "extract")
       => record'.parcels = record.parcels]_vars

\* A record of several parcels has been enriched from a fetched page.
C15_Witness ==
    /\ pc = "download"
    /\ Len(record.parcels) >= 2
    /\ record.state_name # NULL
    /\ record.legal_description = record.parcels

\* C16 (as stated): after enrichment the accession of the record is the
\* accession of the leading listing row it was assembled from, whatever
\* the detail page holds.
C16_AccessionIsListed ==
    pc = "download"
    => record.accession = rows[current_index - rows_consumed + 1].acc

RECURSIVE AllFieldsExtracted(_, _, _)
\* The record when every field block has a try of its own: a raise costs
\* that field only.
AllFieldsExtracted(rec, page, k) ==
    IF k = 0 THEN rec
    ELSE LET before == AllFieldsExtracted(rec, page, k - 1) IN
         IF page.raises = k THEN before
         ELSE ExtractField(before, page, DetailFields[k])

\* C17 (as stated): when the lookup of one detail field raises, that field
\* keeps its default and every other field the page holds is extracted,
\* the fields looked up after the failing one included.
C17_OtherFieldsExtracted ==
    [][pc = "extract" /\ detail_page.ok
       => record' = AllFieldsExtracted(DescribeLocation(record, state_name),
                                       detail_page, Len(DetailFields))]_vars

(* ========================= properties of main ========================== *)
\* C14: every record, while it is assembled, enriched, held in the unit's
\* collection or written to the unit's file, has at least one parcel.
C14_ParcelsNonEmpty ==
    /\ record # None => Len(record.parcels) >= 1
    /\ \A k \in 1..Len(enhanced_records) :
          Len(enhanced_records[k].parcels) >= 1
    /\ \A u \in DOMAIN record_files :
          record_files[u].exists
          => \A k \in 1..Len(record_files[u].content) :
                Len(record_files[u].content[k].parcels) >= 1

\* A record has gone through every stage and is in the unit's file.
C14_Witness ==
    /\ pc = "upsert"
    /\ record # None
    /\ Len(enhanced_records) >= 1
    /\ record_files[file_path].exists
    /\ Len(record_files[file_path].content) >= 1

\* Nothing is recorded for unit u: no record file, no entry in the mapping
\* in memory or on disk.
NothingFor(u, files, mapping, mfile) ==
    /\ files[u] = NoFile
    /\ \A k \in 1..Len(mapping) : UnitOf(mapping[k]) # u
    /\ mfile.exists
       => \A k \in 1..Len(mfile.content) : UnitOf(mfile.content[k]) # u

\* C18: when the listing of a unit cannot be fetched or holds no table, the
\* step writes no record file and no mapping entry and moves the driver on
\* to the next state; and at no later point is anything recorded for a
\* unit that was passed over.
C18_FailedFetchSkipsUnit ==
    [][/\ (pc = "fetch" /\ table_rows' = None)
          => /\ pc' = "for_state"
             /\ state_i' = state_i + 1
             /\ UNCHANGED <<record_files, mapping_file, county_mapping>>
       /\ \A k \in 1..Len(fetch_log') :
             (k < Len(fetch_log') \/ table_rows' = None)
             => NothingFor(fetch_log'[k], record_files', county_mapping',
                           mapping_file')]_vars

\* The listing of the first unit could not be fetched, nothing is
\* recorded for it, and the driver is about to fetch the second unit.
C18_Witness ==
    /\ pc = "fetch"
    /\ state_i = 2
    /\ Len(fetch_log) = 1
    /\ table_rows = None
    /\ record_files[fetch_log[1]] = NoFile

\* C19: when the input cannot be loaded the run ends at once: no listing
\* has been asked for, no directory and no output file exists, the mapping
\* file has not been written.
C19_LoadFailureEndsRun ==
    state_i = 0
    => /\ pc \in {"load", "done"}
       /\ fetch_log = <<>>
       /\ table_rows = None
       /\ dirs = {}
       /\ \A u \in DOMAIN record_files : record_files[u] = NoFile
       /\ mapping_file = NoFile

\* The run has ended on the load failure.
C19_Witness == pc = "done" /\ state_i = 0

\* Unit (k, j) of the loaded input.
InputUnit(k, j) ==
    UnitKey(states_data[k].abbreviation, states_data[k].counties[j])

\* C20 (as stated): when the run has ended, every (state, county) unit of
\* the loaded input has been visited.
C20_EveryUnitVisited ==
    pc = "done" /\ state_i > 0
    => \A k \in 1..Len(states_data) :
          \A j \in 1..Len(states_data[k].counties) :
             \E v \in 1..Len(fetch_log) : fetch_log[v] = InputUnit(k, j)

RECURSIVE FirstUnits(_)
\* The first county of each of the first n states that lists counties.
FirstUnits(n) ==
    IF n = 0 THEN <<>>
    ELSE IF Len(states_data[n].counties) = 0 THEN FirstUnits(n - 1)
    ELSE Append(FirstUnits(n - 1), InputUnit(n, 1))

\* C20, amended: when the run has ended, the units visited are, in input
\* order, the first county of each state that lists counties, up to and
\* including the first unit whose listing has rows; that unit is the only
\* one processed, and when no unit has rows the first county of every state
\* with counties has been visited and passed over.
C20_FirstCountiesUntilRows ==
    pc = "done" /\ state_i > 0
    => IF state_i <= Len(states_data)
       THEN /\ fetch_log = FirstUnits(state_i)
            /\ fetch_log # <<>>
            /\ table_rows # None
            /\ Len(rows) > 0
       ELSE /\ fetch_log = FirstUnits(Len(states_data))
            /\ \A k \in 1..Len(fetch_log) :
                  NothingFor(fetch_log[k], record_files, county_mapping,
                             mapping_file)

\* The run has ended after the second state's first county, with a second
\* county of the first state never visited.
C20_Witness ==
    /\ pc = "done"
    /\ state_i = 2
    /\ Len(states_data[1].counties) = 2
    /\ Len(fetch_log) = 2
    /\ fetch_log[1] = InputUnit(1, 1)
    /\ fetch_log[2] = InputUnit(2, 1)

(* ================== properties of download_patent_image ================ *)
\* The record is in a step that comes before its download.
BeforeDownload ==
    pc \in {"asm_look", "asm_done", "enhance", "extract", "download"}

\* C21: the local image path of a record is set only by a successful
\* download of its image: it is null before the download step, after a
\* download step without image link and after a failed download, and set
\* after a successful one.
C21_PathOnlyAfterDownload ==
    /\ BeforeDownload /\ record # None => record.local_image_path = NULL
    /\ pc = "append"
       => /\ record.image_link = NULL => image_saved = "none"
          /\ image_saved # "yes" => record.local_image_path = NULL
          /\ image_saved = "yes" => record.local_image_path # NULL
    /\ \A k \in 1..Len(enhanced_records) :
          enhanced_records[k].local_image_path # NULL
          => enhanced_records[k].image_link # NULL

\* A download has failed for a record that has an image link.
C21_Witness ==
    /\ pc = "append"
    /\ record.image_link # NULL
    /\ image_saved = "no"
    /\ record.local_image_path = NULL

(* ================== properties of the per-record steps ================= *)
\* The step of the per-record sequence that a program position belongs
\* to: 1 assemble (with image resolution), 2 enrich, 3 download, 4 append,
\* 5 rewrite the unit's file, 6 upsert the mapping entry, 7 rewrite the
\* mapping file; 0 outside the sequence.
Stage(p) ==
    CASE p \in {"asm_start", "img_detail", "img_poll", "img_sleep",
                "asm_build", "asm_look", "asm_done"} -> 1
      [] p \in {"enhance", "extract"} -> 2
      [] p = "download" -> 3
      [] p = "append" -> 4
      [] p \in {"open_file", "dump_file"} -> 5
      [] p = "upsert" -> 6
      [] p \in {"open_map", "dump_map"} -> 7
      [] OTHER -> 0

\* Records in a file: 0 when absent, -1 while it is being rewritten.
CountIn(file, count(_)) ==
    IF ~file.exists THEN 0
    ELSE IF ~file.valid THEN -1
    ELSE count(file.content)

\* processed_records of the current unit's entry in a mapping, 0 without
\* an entry.
MappedCount(mapping) ==
    IF \E k \in 1..Len(mapping) : UnitOf(mapping[k]) = file_path
    THEN LET k == CHOOSE k \in 1..Len(mapping) :
                     UnitOf(mapping[k]) = file_path
         IN mapping[k].processed_records
    ELSE 0

\* How far the records of the unit have got: into the collection, the
\* unit's file, the mapping in memory, the mapping file.
Progress ==
    <<Len(enhanced_records),
      CountIn(record_files[file_path], Len),
      MappedCount(county_mapping),
      CountIn(mapping_file, MappedCount)>>

\* What Progress is at each program position when the steps of each
\* record are done in order and to the end.
ProgressInOrder ==
    LET p == processed_records IN
    CASE pc = "open_file" -> <<p, p - 1, p - 1, p - 1>>
      [] pc = "dump_file" -> <<p, -1, p - 1, p - 1>>
      [] pc = "upsert" -> <<p, p, p - 1, p - 1>>
      [] pc = "open_map" -> <<p, p, p, p - 1>>
      [] pc = "dump_map" -> <<p, p, p, -1>>
      [] OTHER -> <<p, p, p, p>>

StepsInOrder ==
    /\ Progress = ProgressInOrder
    /\ Stage(pc) \in 2..4 => record # None
    /\ Stage(pc) >= 5 => enhanced_records[processed_records] = record

\* C22: the steps of a record are taken in the order assemble, enrich,
\* download (a download only with an image link), append, rewrite the
\* unit's file, upsert the mapping entry, rewrite the mapping file; the
\* sequence is left only from assembly (no record) or after the mapping
\* file is rewritten, so the next record starts with both files holding
\* every record processed so far.
C22_StepsInOrder ==
    [][/\ \/ Stage(pc') = Stage(pc)
          \/ Stage(pc') = Stage(pc) + 1
          \/ Stage(pc') = 0 /\ Stage(pc) \in {1, 7}
       /\ image_saved' # image_saved /\ image_saved' # "none"
          => pc = "download" /\ record.image_link # NULL
       /\ InUnit' => StepsInOrder']_vars

\* The second record of a unit is about to be assembled, the first is in
\* both files.
C22_Witness ==
    /\ pc = "asm_start"
    /\ processed_records = 1
    /\ Len(enhanced_records) = 1
    /\ record_files[file_path] = Written(enhanced_records)
    /\ mapping_file = Written(county_mapping)
    /\ Len(county_mapping) = 1

(* ================ properties of get_image_link, continued ============== *)
\* The poll was answered with a status that is neither READY nor WORKING.
Unexpected(resp) == resp.ok /\ resp.status \notin {"READY", "WORKING"}

\* C23: a poll response with a status other than READY and WORKING ends
\* the image resolution at once: it is the last poll issued, no sleep
\* follows it, and no image link is returned, also when retries remain.
C23_UnexpectedStatusFailsAtOnce ==
    \A k \in 1..Len(poll_log) :
       Unexpected(poll_log[k])
       => /\ k = Len(poll_log)
          /\ attempt = k
          /\ sleeps = k - 1
          /\ image_link = NULL
          /\ img_fail = "unexpected"
          /\ pc = "asm_build"

\* The second poll was answered with an unexpected status, after one
\* sleep and with retries left.
C23_Witness ==
    /\ Len(poll_log) = 2
    /\ Working(poll_log[1])
    /\ Unexpected(poll_log[2])
    /\ attempt < max_retries
    /\ sleeps = 1
    /\ image_link = NULL
    /\ pc = "asm_build"

(* ============== properties of the mapping entry, continued ============= *)
\* h hundredths of a percent is processed/total*100 rounded to two
\* decimals: no other number of hundredths is nearer to the quotient.
IsRoundedPercentage(h, processed, total) ==
    LET d == h * total - processed * 10000 IN
    /\ 2 * d <= total
    /\ 2 * d >= 0 - total

\* C24: the completion_percentage of the entry built for a mapping update
\* is processed_records/total_records*100 of that same entry, rounded to
\* two decimals, and 0 when its total_records is 0.
C24_PercentageOfSameEntry ==
    county_data # None
    => IF county_data.total_records = 0
       THEN county_data.completion_percentage = 0
       ELSE IsRoundedPercentage(county_data.completion_percentage,
                                county_data.processed_records,
                                county_data.total_records)

\* The entry for 2 of 3 records has been built: 66.67 percent.
C24_Witness ==
    /\ county_data # None
    /\ county_data.processed_records = 2
    /\ county_data.total_records = 3
    /\ county_data.completion_percentage = 6667

(* ========= properties of enhance_record_with_details, continued ======== *)
\* C25: without a detail link, and when the fetch of the detail page
\* fails, enrichment hands the record back with every field as it was,
\* state name and legal description still null; the record goes on to
\* the download step and is the record that is appended and written to
\* the unit's file.
C25_FailedFetchKeepsRecord ==
    [][/\ (pc = "enhance" /\ record.detail_link = NULL)
          \/ (pc = "extract" /\ ~detail_page.ok)
          => /\ record' = record
             /\ record'.state_name = NULL
             /\ record'.legal_description = <<>>
             /\ pc' = "download"
       /\ pc' = "upsert"
          => /\ record_files'[file_path'].valid
             /\ record_files'[file_path'].content = enhanced_records'
             /\ enhanced_records'[processed_records'] = record']_vars

\* A record whose detail page could not be fetched is in the unit's file.
C25_Witness ==
    /\ pc = "upsert"
    /\ record.detail_link # NULL
    /\ record.state_name = NULL
    /\ record.legal_description = <<>>
    /\ record_files[file_path].content[processed_records] = record

\* The persons of type patentee that the names section of the fetched
\* page yields, none without a page or without a names section.
PagePatentees(page) ==
    IF page.ok /\ page.names # None
    THEN SelectSeq(parse_patentees(page.names.cell),
                   LAMBDA person : person.type = "patentee")
    ELSE <<>>

\* C26 (as stated): after enrichment people.patentees is the list of the
\* patentees that the names section of the detail page yields when there
\* is at least one, and the listing-derived list otherwise; it is never
\* empty.
C26_PatenteesFromNamesSection ==
    [][pc = "extract"
       => /\ record'.patentees =
                IF PagePatentees(detail_page) # <<>>
                THEN PagePatentees(detail_page)
                ELSE record.patentees
          /\ record'.patentees # <<>>]_vars

\* The cancelled lookups of the fetched page run to their end: the page was
\* received and the cancelled block does not raise.
CancelledLookedUp ==
    /\ pc = "extract"
    /\ detail_page.ok
    /\ detail_page.raises # 1

\* The id lookup finds nothing and the label lookup finds a sibling.
FallbackFound ==
    /\ CancelledLookedUp
    /\ detail_page.cancelled_id = NULL
    /\ detail_page.cancelled_label # NULL

\* misc_info.land_office after the landOffice lookup of the page alone.
OfficeOfPage ==
    IF detail_page.land_office # NULL /\ detail_page.raises # 2
    THEN detail_page.land_office
    ELSE record.land_office

\* C27 (as stated): the id lookup of cancelled writes basic_info.cancelled;
\* when it finds nothing and the label fallback finds a value, that value
\* is written into misc_info.land_office (seen when the page has no land
\* office of its own) and basic_info.cancelled stays null.
C27_FallbackIntoMiscLandOffice ==
    [][/\ (CancelledLookedUp /\ detail_page.cancelled_id # NULL)
            => record'.cancelled = detail_page.cancelled_id
       /\ (FallbackFound /\ detail_page.land_office = NULL)
            => /\ record'.land_office = detail_page.cancelled_label
               /\ record'.cancelled = NULL]_vars

\* C27 (amended): the id lookup of cancelled writes basic_info.cancelled;
\* when it finds nothing and the label fallback finds a value, that value
\* is written under the key land_office of basic_info, which exists only
\* then; basic_info.cancelled stays null and misc_info.land_office is what
\* the landOffice lookup alone makes of it.
C27_FallbackIntoBasicLandOffice ==
    [][/\ (CancelledLookedUp /\ detail_page.cancelled_id # NULL)
            => /\ record'.cancelled = detail_page.cancelled_id
               /\ record'.basic_land_office = "absent"
       /\ FallbackFound
            => /\ record'.basic_land_office = detail_page.cancelled_label
               /\ record'.cancelled = NULL
               /\ record'.land_office = OfficeOfPage
       /\ (pc = "extract" /\ ~FallbackFound)
            => record'.basic_land_office = "absent"]_vars

\* A record enriched through the fallback: the label's value sits under
\* basic_info, cancelled and misc_info.land_office are null.
C27_Witness ==
    /\ pc = "download"
    /\ record.basic_land_office = "sibling"
    /\ record.cancelled = NULL
    /\ record.land_office = NULL
    /\ record.state_name # NULL

\* C28: the loop over the rows of a unit ends for every listing: the step
\* that closes the assembly of an iteration moves the row index forward, by
\* one when no record came out and by the consumed rows, at least one,
\* otherwise; no other step within the unit moves it; and a loop that was
\* entered is left.
C28_LoopTerminates ==
    /\ [][/\ (pc = "asm_done" /\ record = None)
               => current_index' = current_index + 1
          /\ (pc = "asm_done" /\ record # None)
               => /\ rows_consumed >= 1
                  /\ current_index' = current_index + rows_consumed
          /\ (InUnit /\ InUnit' /\ pc # "asm_done")
               => current_index' = current_index]_vars
    /\ (pc = "while") ~> (pc = "end")

\* The loop was left over a listing of MaxLoopRows rows none of which gave
\* a record.
C28_Witness ==
    /\ pc = "end"
    /\ table_rows # None
    /\ Len(rows) = MaxLoopRows
    /\ \A i \in 1..Len(rows) : ~AllColumnsPresent(rows[i])
    /\ current_index = Len(rows)
    /\ enhanced_records = <<>>

\* The rows of the listing that gave a parcel to the k-th record of the
\* unit: a parcel is named by the position of its row.
RowsOfRecord(k) ==
    {enhanced_records[k].parcels[a] :
        a \in 1..Len(enhanced_records[k].parcels)}

\* C29: no row of the listing is used twice: within a record every parcel
\* comes from a row of its own, no row gives a parcel to two records of the
\* unit, and the records stand in the unit's collection in increasing
\* order of their leading rows.
C29_NoRowUsedTwice ==
    /\ \A k \in 1..Len(enhanced_records) :
         Cardinality(RowsOfRecord(k)) = Len(enhanced_records[k].parcels)
    /\ \A k \in 1..Len(enhanced_records) :
         \A l \in (k + 1)..Len(enhanced_records) :
            /\ RowsOfRecord(k) \cap RowsOfRecord(l) = {}
            /\ enhanced_records[k].parcels[1]
                 < enhanced_records[l].parcels[1]

\* Two records of one unit, one from each row of the listing.
C29_Witness ==
    /\ Len(enhanced_records) = 2
    /\ enhanced_records[1].parcels = <<1>>
    /\ enhanced_records[2].parcels = <<2>>

\* C30 (as stated): every entry of the mapping file has at least one total
\* record and no more processed than total records, so its percentage,
\* in hundredths, lies between 0 and 100 percent.
C30_ProcessedWithinTotal ==
    (mapping_file.exists /\ mapping_file.valid)
    => \A k \in 1..Len(mapping_file.content) :
          LET entry == mapping_file.content[k] IN
          /\ entry.total_records >= 1
          /\ entry.processed_records <= entry.total_records
          /\ entry.completion_percentage >= 0
          /\ entry.completion_percentage <= 10000

(* ============== properties of the two files, continued ================= *)
\* C31 (as stated): at every point of a run, so also at a crash at that
\* point, each entry of the mapping file on disk stores a processed_records
\* that is at most the number of records in the file of its unit on disk,
\* and at least that number minus 1.
C31_MappingBehindFileByAtMostOne ==
    (mapping_file.exists /\ mapping_file.valid)
    => \A k \in 1..Len(mapping_file.content) :
          LET entry == mapping_file.content[k]
              file == record_files[UnitOf(entry)]
          IN /\ file.exists
             /\ file.valid
             /\ entry.processed_records <= Len(file.content)
             /\ entry.processed_records >= Len(file.content) - 1

====
